---- MODULE Spec2Model ----
(***************************************************************************)
(* vsdown: check / install / remove of a Visual Studio Code release.       *)
(* The state is the part of the filesystem the program touches; one action *)
(* per subcommand of main (src/src/main.rs), each built from the functions *)
(* of src/src/checker.rs.  Network results are inputs of the actions; a    *)
(* filesystem call that can fail takes an injected fault naming the call.  *)
(***************************************************************************)
EXTENDS Integers, Sequences, FiniteSets, TLC

VARIABLES
  arch,   \* std::env::consts::ARCH of the build that runs
  fs,     \* the filesystem (see FsStates)
  last,   \* what the last command was given and what it did
  prev    \* whether the command before the last was a remove() that returned Ok

vars == <<arch, fs, last, prev>>

----------------------------------------------------------------------------
(* Bounds *)

\* Number of (path, bytes) entries of PATH_KV that are modelled.
NumAssets == 2

----------------------------------------------------------------------------
(* Strings are sequences of characters. *)

NL == "\n"
SP == " "
\* A byte that is not valid UTF-8.
BadByte == "BAD"

None == <<"N", "o", "n", "e">>

\* Version strings the remote endpoint may answer with.
RemoteVersions == { <<>>, <<"1">>, <<"2", SP, "1">>, None }

\* Contents a marker file may have when the program starts: zero-length, a
\* version with a trailing newline, white space only, white space inside,
\* and bytes that are not UTF-8.
MarkerContents ==
  { <<>>, <<"1", NL>>, <<SP, NL>>, <<"2", SP, "1">>, <<"1", BadByte>> }

\* String::replace(c, ""): every occurrence of c removed.
RECURSIVE replace(_, _)
replace(s, c) ==
  IF s = <<>> THEN <<>>
  ELSE IF Head(s) = c THEN replace(Tail(s), c)
  ELSE <<Head(s)>> \o replace(Tail(s), c)

\* std::str::from_utf8 succeeds.
from_utf8_ok(buf) == \A i \in 1..Len(buf) : buf[i] # BadByte

\* write_all(new) at offset 0 of a file opened without truncation.
write_at_start(old, new) ==
  IF Len(new) >= Len(old) THEN new
  ELSE new \o SubSeq(old, Len(new) + 1, Len(old))

----------------------------------------------------------------------------
(* Filesystem *)

PATH_KV == 1..NumAssets

Archs == {"x86_64", "aarch64", "riscv64"}

\* download_vscode's match on ARCH: the os= tag, or "unsupported".
arch_tag(a) ==
  IF a = "x86_64" THEN "linux-x64"
  ELSE IF a = "aarch64" THEN "linux-arm64"
  ELSE "unsupported"

CleanFs ==
  [ verDir   |-> FALSE,                       \* /var/lib/vsdown/
    mExists  |-> FALSE,                       \* /var/lib/vsdown/current_version
    mContent |-> <<>>,
    vscode   |-> "absent",                    \* /usr/lib/vscode
    staging  |-> "absent",                    \* /usr/lib/VSCode-<tag>
    bin      |-> "absent",                    \* /usr/bin/vscode
    assets   |-> [i \in PATH_KV |-> "absent"] ]

MarkerStates ==
  {[e |-> FALSE, c |-> <<>>]} \cup {[e |-> TRUE, c |-> c] : c \in MarkerContents}

Layout(v, b, as) == [vscode |-> v, bin |-> b, assets |-> as]

AllAssets(x) == [k \in PATH_KV |-> x]

\* The release when the program starts: absent; installed; installed, the
\* manifest files edited since; a dangling link alone; the directory alone;
\* a regular file at the link path and the first manifest file left behind.
ReleaseLayouts ==
  { Layout("absent", "absent", AllAssets("absent")),
    Layout("rel0", "symlink", AllAssets("asset")),
    Layout("rel0", "symlink", AllAssets("custom")),
    Layout("absent", "symlink", AllAssets("absent")),
    Layout("rel0", "absent", AllAssets("absent")),
    Layout("absent", "file", [k \in PATH_KV |-> IF k = 1 THEN "custom" ELSE "absent"]) }

\* A marker file exists only inside an existing /var/lib/vsdown/.
FsStates ==
  { f \in { [ verDir   |-> d,
              mExists  |-> m.e,
              mContent |-> m.c,
              vscode   |-> l.vscode,
              staging  |-> "absent",
              bin      |-> l.bin,
              assets   |-> l.assets ] :
              d \in BOOLEAN, m \in MarkerStates, l \in ReleaseLayouts } :
      f.mExists => f.verDir }

\* Path::exists(): follows a symlink, so a dangling link does not exist.
vscode_exists(f) == f.vscode # "absent"
bin_exists(f) ==
  \/ f.bin = "file"
  \/ f.bin = "symlink" /\ f.vscode \in {"rel0", "rel1"}

----------------------------------------------------------------------------
(* Faults and network results *)

NoFault == [step |-> "none", i |-> 0]
Fault(s) == [step |-> s, i |-> 0]
FaultAt(s, k) == [step |-> s, i |-> k]

CheckFaults ==
  {NoFault} \cup {Fault(s) : s \in {"mkdir_ver", "create_marker", "write_none"}}

RemoveFaults ==
  {NoFault}
  \cup {Fault(s) : s \in {"rm_dir", "rm_dir_part", "rm_link", "rm_bin", "rm_marker"}}
  \cup {FaultAt("rm_asset", k) : k \in PATH_KV}

InstallFaults ==
  RemoveFaults
  \cup {Fault(s) : s \in {"unpack", "rename", "symlink", "mkdir_share",
                          "open_marker", "write_marker"}}
  \cup {FaultAt("create_asset", k) : k \in PATH_KV}

FetchFail == [ok |-> FALSE, v |-> <<>>]
FetchResults == {FetchFail} \cup {[ok |-> TRUE, v |-> v] : v \in RemoteVersions}

\* The result of a step: the filesystem it leaves, where it failed ("none":
\* it returned Ok), and whether the injected fault was the failure.
Step(f, at, hit) == [fs |-> f, at |-> at, hit |-> hit]
Ok(f) == Step(f, "none", FALSE)

----------------------------------------------------------------------------
(* checker.rs: the version oracle *)

\* get_lastest_version: the network's answer is an input of the caller.
get_lastest_version(r) == r

\* A get_current_version that trims the ends only (str::trim).
RECURSIVE trim_start(_)
trim_start(s) ==
  IF s # <<>> /\ Head(s) \in {NL, SP} THEN trim_start(Tail(s)) ELSE s

RECURSIVE trim_end(_)
trim_end(s) ==
  IF s # <<>> /\ s[Len(s)] \in {NL, SP} THEN trim_end(SubSeq(s, 1, Len(s) - 1)) ELSE s

get_current_version_trim(f) ==
  IF ~f.mExists THEN [ok |-> FALSE, v |-> <<>>]
  ELSE IF f.mContent = <<>> THEN [ok |-> FALSE, v |-> <<>>]
  ELSE IF ~from_utf8_ok(f.mContent) THEN [ok |-> FALSE, v |-> <<>>]
  ELSE [ok |-> TRUE, v |-> trim_end(trim_start(f.mContent))]

\* get_current_version: open, read_to_end, bail on an empty buffer,
\* from_utf8, then every "\n" and " " removed.
get_current_version(f) ==
  IF ~f.mExists THEN [ok |-> FALSE, v |-> <<>>]
  ELSE IF f.mContent = <<>> THEN [ok |-> FALSE, v |-> <<>>]
  ELSE IF ~from_utf8_ok(f.mContent) THEN [ok |-> FALSE, v |-> <<>>]
  ELSE [ok |-> TRUE, v |-> replace(replace(f.mContent, NL), SP)]

\* What update_checker leaves and returns; first: it took the Err(_) arm and
\* printed "Recording current Visual Studio Code version information ...".
Checked(f, out, local, remote, hit, first) ==
  [fs |-> f, out |-> out, local |-> local, remote |-> remote, hit |-> hit,
   first |-> first]

\* A record_none that creates the marker file and writes nothing to it.
record_none_empty(f, fc) ==
  IF fc = Fault("mkdir_ver") THEN Step(f, "mkdir_ver", TRUE)
  ELSE LET f1 == [f EXCEPT !.verDir = TRUE] IN
    IF fc = Fault("create_marker") THEN Step(f1, "create_marker", TRUE)
    ELSE Ok([f1 EXCEPT !.mExists = TRUE, !.mContent = <<>>])

\* The Err(_) arm of update_checker: create_dir_all, File::create (which
\* truncates), write_all(b"None").
record_none(f, fc) ==
  IF fc = Fault("mkdir_ver") THEN Step(f, "mkdir_ver", TRUE)
  ELSE LET f1 == [f EXCEPT !.verDir = TRUE] IN
    IF fc = Fault("create_marker") THEN Step(f1, "create_marker", TRUE)
    ELSE LET f2 == [f1 EXCEPT !.mExists = TRUE, !.mContent = <<>>] IN
      IF fc = Fault("write_none") THEN Step(f2, "write_none", TRUE)
      ELSE Ok([f2 EXCEPT !.mContent = None])

\* update_checker: "Ok" (up to date), "Mismatch" (the bail! of line 79) or
\* "Error" (a `?` that propagated).  Mismatch and Error are both Err(_).
update_checker(f, r, fc) ==
  LET latest == get_lastest_version(r) IN
  IF ~latest.ok THEN Checked(f, "Error", <<>>, <<>>, FALSE, FALSE)
  ELSE
    LET cur == get_current_version(f) IN
    IF cur.ok THEN
      Checked(f, IF cur.v # latest.v THEN "Mismatch" ELSE "Ok", cur.v, latest.v,
              FALSE, FALSE)
    ELSE
      LET w == record_none(f, fc) IN
      IF w.at # "none" THEN Checked(w.fs, "Error", <<>>, <<>>, TRUE, TRUE)
      ELSE Checked(w.fs, IF None # latest.v THEN "Mismatch" ELSE "Ok",
                   None, latest.v, FALSE, TRUE)

----------------------------------------------------------------------------
(* checker.rs: remove *)

AssetPath(k) == [kind |-> "asset", i |-> k]
BinPath == [kind |-> "bin", i |-> 0]
MarkerPath == [kind |-> "marker", i |-> 0]

path_exists(f, p) ==
  IF p.kind = "asset" THEN f.assets[p.i] # "absent"
  ELSE IF p.kind = "bin" THEN bin_exists(f)
  ELSE f.mExists

remove_file(f, p) ==
  IF p.kind = "asset" THEN [f EXCEPT !.assets[p.i] = "absent"]
  ELSE IF p.kind = "bin" THEN [f EXCEPT !.bin = "absent"]
  ELSE [f EXCEPT !.mExists = FALSE, !.mContent = <<>>]

rm_fault(p) ==
  IF p.kind = "asset" THEN FaultAt("rm_asset", p.i)
  ELSE IF p.kind = "bin" THEN Fault("rm_bin")
  ELSE Fault("rm_marker")

\* A remove_inner without the existence check: remove_file on a path that
\* is not there fails with ENOENT.
remove_inner_unguarded(f, p, fault) ==
  IF path_exists(f, p) THEN
    IF fault = rm_fault(p) THEN Step(f, fault.step, TRUE)
    ELSE Ok(remove_file(f, p))
  ELSE Step(f, "enoent", FALSE)

\* remove_inner: remove_file only if the path exists.
remove_inner(f, p, fault) ==
  IF path_exists(f, p) THEN
    IF fault = rm_fault(p) THEN Step(f, fault.step, TRUE)
    ELSE Ok(remove_file(f, p))
  ELSE Ok(f)

\* for (i, _) in PATH_KV { remove_inner(i)?; }, from entry k on.
RECURSIVE remove_assets(_, _, _)
remove_assets(f, k, fault) ==
  IF k > NumAssets THEN Ok(f)
  ELSE LET r == remove_inner(f, AssetPath(k), fault) IN
    IF r.at # "none" THEN r ELSE remove_assets(r.fs, k + 1, fault)

\* if p.exists() { remove_dir_all("/usr/lib/vscode")?; }: a failing
\* remove_dir_all leaves the tree whole or partly deleted.
remove_dir(f, fault) ==
  IF vscode_exists(f) THEN
    IF fault = Fault("rm_dir") THEN Step(f, "rm_dir", TRUE)
    ELSE IF fault = Fault("rm_dir_part")
      THEN Step([f EXCEPT !.vscode = "partial"], "rm_dir_part", TRUE)
    ELSE Ok([f EXCEPT !.vscode = "absent"])
  ELSE Ok(f)

\* A remove_link that leaves the link in place.
remove_link_skip(f, fault) == Ok(f)

\* if read_link("/usr/bin/vscode").is_ok() { remove_file(..)?; }
remove_link(f, fault) ==
  IF f.bin = "symlink" THEN
    IF fault = Fault("rm_link") THEN Step(f, "rm_link", TRUE)
    ELSE Ok([f EXCEPT !.bin = "absent"])
  ELSE Ok(f)

\* A remove_vscode that leaves the marker file.
remove_vscode_keep_marker(f, fault) ==
  LET a == remove_assets(f, 1, fault) IN
  IF a.at # "none" THEN a ELSE
  LET d == remove_dir(a.fs, fault) IN
  IF d.at # "none" THEN d ELSE
  LET l == remove_link(d.fs, fault) IN
  IF l.at # "none" THEN l ELSE
  remove_inner(l.fs, BinPath, fault)

\* A remove_vscode that deletes the marker file first.
remove_vscode_marker_first(f, fault) ==
  LET m == remove_inner(f, MarkerPath, fault) IN
  IF m.at # "none" THEN m ELSE
  LET a == remove_assets(m.fs, 1, fault) IN
  IF a.at # "none" THEN a ELSE
  LET d == remove_dir(a.fs, fault) IN
  IF d.at # "none" THEN d ELSE
  LET l == remove_link(d.fs, fault) IN
  IF l.at # "none" THEN l ELSE
  remove_inner(l.fs, BinPath, fault)

remove_vscode(f, fault) ==
  LET a == remove_assets(f, 1, fault) IN
  IF a.at # "none" THEN a ELSE
  LET d == remove_dir(a.fs, fault) IN
  IF d.at # "none" THEN d ELSE
  LET l == remove_link(d.fs, fault) IN
  IF l.at # "none" THEN l ELSE
  LET b == remove_inner(l.fs, BinPath, fault) IN
  IF b.at # "none" THEN b ELSE
  remove_inner(b.fs, MarkerPath, fault)

----------------------------------------------------------------------------
(* checker.rs: install *)

\* install_file_inner: create and write only if the path does not exist.
install_file_inner(f, k, fault) ==
  IF ~path_exists(f, AssetPath(k)) THEN
    IF fault = FaultAt("create_asset", k) THEN Step(f, "create_asset", TRUE)
    ELSE Ok([f EXCEPT !.assets[k] = "asset"])
  ELSE Ok(f)

RECURSIVE install_assets(_, _, _)
install_assets(f, k, fault) ==
  IF k > NumAssets THEN Ok(f)
  ELSE LET r == install_file_inner(f, k, fault) IN
    IF r.at # "none" THEN r ELSE install_assets(r.fs, k + 1, fault)

\* std::os::unix::fs::symlink("/usr/lib/vscode/code", "/usr/bin/vscode"):
\* EEXIST when anything is at the link path.
symlink(f, fault) ==
  IF f.bin # "absent" THEN Step(f, "symlink_exists", FALSE)
  ELSE IF fault = Fault("symlink") THEN Step(f, "symlink", TRUE)
  ELSE Ok([f EXCEPT !.bin = "symlink"])

install_beyond(f, fault) ==
  LET s == symlink(f, fault) IN
  IF s.at # "none" THEN s
  ELSE IF fault = Fault("mkdir_share") THEN Step(s.fs, "mkdir_share", TRUE)
  ELSE install_assets(s.fs, 1, fault)

\* tar.unpack(VSCODE_PATH): the archive's top-level directory VSCode-<tag>
\* appears under /usr/lib; a failing unpack leaves part of it.
unpack(f, fault) ==
  IF fault = Fault("unpack") THEN Step([f EXCEPT !.staging = "partial"], "unpack", TRUE)
  ELSE Ok([f EXCEPT !.staging = "rel1"])

\* std::fs::rename("/usr/lib/VSCode-<tag>", "/usr/lib/vscode")
rename(f, fault) ==
  IF f.staging = "absent" \/ f.vscode # "absent" THEN Step(f, "rename_refused", FALSE)
  ELSE IF fault = Fault("rename") THEN Step(f, "rename", TRUE)
  ELSE Ok([f EXCEPT !.vscode = f.staging, !.staging = "absent"])

Installed(f, at, hit, used) == [fs |-> f, at |-> at, hit |-> hit, used |-> used]

\* Lines 148-157: open the marker (read, write, create; no truncate), seek
\* to 0, fetch the latest version again and write it.  A write_all of no
\* bytes makes no call that can fail; one that fails has written nothing.
write_marker(f, r2, fault) ==
  IF ~f.verDir THEN Installed(f, "open_enoent", FALSE, FALSE)
  ELSE IF fault = Fault("open_marker") THEN Installed(f, "open_marker", TRUE, FALSE)
  ELSE
    LET f1 == [f EXCEPT !.mExists = TRUE] IN
    LET latest == get_lastest_version(r2) IN
    IF ~latest.ok THEN Installed(f1, "refetch", FALSE, TRUE)
    ELSE IF fault = Fault("write_marker") /\ latest.v # <<>>
      THEN Installed(f1, "write_marker", TRUE, TRUE)
    ELSE Installed([f1 EXCEPT !.mContent = write_at_start(f1.mContent, latest.v)],
                   "none", FALSE, TRUE)

\* An install that tears the old release down before it unpacks the new one.
install_teardown_first(f, r2, fault) ==
  LET r == remove_vscode(f, fault) IN
  IF r.at # "none" THEN Installed(r.fs, r.at, r.hit, FALSE) ELSE
  LET u == unpack(r.fs, fault) IN
  IF u.at # "none" THEN Installed(u.fs, u.at, u.hit, FALSE) ELSE
  LET m == rename(u.fs, fault) IN
  IF m.at # "none" THEN Installed(m.fs, m.at, m.hit, FALSE) ELSE
  LET b == install_beyond(m.fs, fault) IN
  IF b.at # "none" THEN Installed(b.fs, b.at, b.hit, FALSE) ELSE
  write_marker(b.fs, r2, fault)

install(f, r2, fault) ==
  LET u == unpack(f, fault) IN
  IF u.at # "none" THEN Installed(u.fs, u.at, u.hit, FALSE) ELSE
  LET r == remove_vscode(u.fs, fault) IN
  IF r.at # "none" THEN Installed(r.fs, r.at, r.hit, FALSE) ELSE
  LET m == rename(r.fs, fault) IN
  IF m.at # "none" THEN Installed(m.fs, m.at, m.hit, FALSE) ELSE
  LET b == install_beyond(m.fs, fault) IN
  IF b.at # "none" THEN Installed(b.fs, b.at, b.hit, FALSE) ELSE
  write_marker(b.fs, r2, fault)

\* download_vscode: the architecture match, then the GET (dl: it succeeded).
download_vscode(a, dl) ==
  IF arch_tag(a) = "unsupported" THEN "arch"
  ELSE IF ~dl THEN "download"
  ELSE "none"

install_vscode(f, a, dl, r2, fault) ==
  LET d == download_vscode(a, dl) IN
  IF d # "none" THEN Installed(f, d, FALSE, FALSE)
  ELSE install(f, r2, fault)

----------------------------------------------------------------------------
(* main.rs: the three subcommands *)

\* What is kept of a command: cmd and force (the arguments), chk (what
\* update_checker returned, "skipped" when it was not called), first (the
\* check subcommand recorded a first run), msg (the two
\* versions the mismatch carries), r1 (the endpoint's answer to the check
\* subcommand), ran (install_vscode was called), at (where install_vscode or
\* remove_vscode failed, "none" when it returned Ok), fault (the injected
\* fault that failed it, or the check subcommand), r2 (the endpoint's answer
\* at the end of install), was (what a successful install found: a complete
\* release, and a marker longer than the version it then wrote).
Last(cmd, force, chk, first, msg, r1, ran, at, fault, r2, was) ==
  [cmd |-> cmd, force |-> force, chk |-> chk, first |-> first, msg |-> msg,
   r1 |-> r1, ran |-> ran, at |-> at, fault |-> fault, r2 |-> r2, was |-> was]

NoWas == [installed |-> FALSE, longer |-> FALSE]

NoLast ==
  Last("none", FALSE, "skipped", FALSE, <<>>, FetchFail, FALSE, "none", NoFault, FetchFail, NoWas)

\* The release is installed: directory, link and every manifest file.
release_installed(f) ==
  /\ f.vscode \in {"rel0", "rel1"}
  /\ f.bin = "symlink"
  /\ \A k \in PATH_KV : f.assets[k] # "absent"

Was(f, at, r2) ==
  IF at = "none"
    THEN [installed |-> release_installed(f), longer |-> Len(f.mContent) > Len(r2.v)]
  ELSE NoWas

\* The file system is any state another run or the administrator left
\* behind.  aarch64 differs from x86_64 in the tag alone and is run from the
\* clean file system (InitClean).
Init ==
  /\ arch \in {"x86_64", "riscv64"}
  /\ fs \in FsStates
  /\ last = NoLast
  /\ prev = FALSE

\* A machine the program has not run on.
InitClean ==
  /\ arch \in Archs
  /\ fs = CleanFs
  /\ last = NoLast
  /\ prev = FALSE

Finish(f, l) ==
  /\ fs' = f
  /\ last' = l
  /\ prev' = (last.cmd = "remove" /\ last.at = "none")
  /\ UNCHANGED arch

\* install_vscode() as main calls it, on the filesystem f the check left;
\* chks: what the check can have returned on the way to f.  Inputs a run does
\* not consume take one fixed value: the download's outcome on an unsupported
\* architecture, a fault at a call that is not reached or cannot fail there,
\* the second fetch when the marker is never opened.
RunInstall(f, force, chks) ==
  \E dl \in BOOLEAN :
    IF download_vscode(arch, dl) # "none" THEN
      /\ ~dl
      /\ \E i \in {install_vscode(f, arch, dl, FetchFail, NoFault)}, chk \in chks :
           Finish(i.fs, Last("install", force, chk, FALSE, <<>>, FetchFail, TRUE, i.at,
                             NoFault, FetchFail, NoWas))
    ELSE
      \E fault \in InstallFaults :
        \E probe \in {install_vscode(f, arch, dl, FetchFail, fault)} :
          IF probe.used /\ fault \in {NoFault, Fault("write_marker")} THEN
            \E r2 \in FetchResults :
              \E i \in {install_vscode(f, arch, dl, r2, fault)}, chk \in chks :
                /\ fault = NoFault \/ i.hit
                /\ Finish(i.fs, Last("install", force, chk, FALSE, <<>>, FetchFail, TRUE,
                                     i.at, fault, r2, Was(f, i.at, r2)))
          ELSE
            /\ fault = NoFault \/ probe.hit
            /\ \E chk \in chks :
                 Finish(probe.fs, Last("install", force, chk, FALSE, <<>>, FetchFail,
                                       TRUE, probe.at, fault, FetchFail, NoWas))

\* What update_checker can leave and return from the current state, over
\* every answer of the endpoint and every fault.
CheckOutcomes ==
  { [fs |-> c.fs, out |-> c.out] :
      c \in { update_checker(fs, r1, fc) : r1 \in FetchResults, fc \in CheckFaults } }

\* VsdownCommand::Install { force }: forced, install_vscode; otherwise
\* update_checker, and install_vscode if it returned Err(_), whose message is
\* printed and not kept.
Install(force) ==
  IF force THEN RunInstall(fs, TRUE, {"skipped"})
  ELSE
    \E co \in {CheckOutcomes} :
      \/ \E f \in {c.fs : c \in {d \in co : d.out # "Ok"}} :
           RunInstall(f, FALSE, {c.out : c \in {d \in co : d.fs = f /\ d.out # "Ok"}})
      \/ \E c \in {d \in co : d.out = "Ok"} :
           Finish(c.fs, Last("install", FALSE, c.out, FALSE, <<>>, FetchFail, FALSE, "none",
                             NoFault, FetchFail, NoWas))

\* VsdownCommand::Check
Check(r1, fc) ==
  \E c \in {update_checker(fs, r1, fc)} :
    /\ fc = NoFault \/ c.hit
    /\ Finish(c.fs, Last("check", FALSE, c.out, c.first,
                         IF c.out = "Mismatch" THEN <<c.local, c.remote>> ELSE <<>>,
                         r1, FALSE, "none", fc, FetchFail, NoWas))

\* VsdownCommand::Remove
Remove(fault) ==
  \E r \in {remove_vscode(fs, fault)} :
    /\ fault = NoFault \/ r.hit
    /\ Finish(r.fs, Last("remove", FALSE, "skipped", FALSE, <<>>, FetchFail, FALSE, r.at,
                         fault, FetchFail, NoWas))

Next ==
  \/ \E force \in BOOLEAN : Install(force)
  \/ \E r1 \in FetchResults, fc \in CheckFaults : Check(r1, fc)
  \/ \E fault \in RemoveFaults : Remove(fault)

Spec == Init /\ [][Next]_vars

SpecClean == InitClean /\ [][Next]_vars

----------------------------------------------------------------------------
(* Properties *)

NotBlank(c) == c # NL /\ c # SP

\* s with every "\n" and " " removed.
Stripped(s) == SelectSeq(s, NotBlank)

\* The marker file can be read and is not zero-length.
Readable(f) ==
  /\ f.mExists
  /\ f.mContent # <<>>
  /\ \A i \in 1..Len(f.mContent) : f.mContent[i] # BadByte

Marker(f) == <<f.mExists, f.mContent>>

NothingLeft(f) ==
  /\ f.vscode = "absent"
  /\ f.bin = "absent"
  /\ ~f.mExists
  /\ \A k \in PATH_KV : f.assets[k] = "absent"

\* C1: with a readable, non-empty marker L and a fetched remote version R,
\* the check is up to date iff L without its "\n" and " " equals R, and is
\* otherwise a mismatch carrying the stripped L and R; it is no first run and
\* the file system is left as it was.
C1_CheckComparesStripped ==
  [][ (last'.cmd = "check" /\ last'.r1.ok /\ Readable(fs)) =>
        /\ fs' = fs
        /\ ~last'.first
        /\ IF Stripped(fs.mContent) = last'.r1.v
             THEN last'.chk = "Ok"
             ELSE /\ last'.chk = "Mismatch"
                  /\ last'.msg = <<Stripped(fs.mContent), last'.r1.v>> ]_vars

\* A marker of white space alone gave a mismatch of the empty string against
\* a non-empty remote version.
C1_Witness ==
  /\ last.cmd = "check"
  /\ last.chk = "Mismatch"
  /\ ~last.first
  /\ fs.mContent = <<SP, NL>>
  /\ last.msg = << <<>>, <<"1">> >>

C3_InstallLeavesRelease ==
  (last.cmd = "install" /\ last.ran) =>
    /\ last.at = "none" =>
         /\ fs.vscode = "rel1"
         /\ fs.bin = "symlink" /\ bin_exists(fs)
         /\ \A k \in PATH_KV : fs.assets[k] # "absent"
    /\ last.fault = NoFault =>
         last.at \in {"none", "arch", "download", "refetch", "open_enoent"}

\* An install over a complete earlier install returned Ok.
C3_Witness ==
  /\ last.cmd = "install"
  /\ last.at = "none"
  /\ last.was.installed
  /\ fs.vscode = "rel1"

\* C4 as stated: after an install that returned Ok, get_current_version
\* returns the version fetched at the end of the install, stripped.
C4_Original ==
  (last.cmd = "install" /\ last.ran /\ last.at = "none") =>
    get_current_version(fs) = [ok |-> TRUE, v |-> Stripped(last.r2.v)]

\* C4 amended: after an install that returned Ok the marker file holds
\* exactly the bytes of the version R fetched at the end of the install, and
\* get_current_version returns R stripped when R is not empty; for the empty
\* R the file is zero-length and get_current_version fails.
C4_MarkerRoundTrip ==
  (last.cmd = "install" /\ last.ran /\ last.at = "none") =>
    /\ fs.mExists
    /\ fs.mContent = last.r2.v
    /\ IF last.r2.v = <<>>
         THEN ~get_current_version(fs).ok
         ELSE get_current_version(fs) = [ok |-> TRUE, v |-> Stripped(last.r2.v)]

\* An install returned Ok over a marker longer than the version it wrote.
C4_Witness ==
  /\ last.cmd = "install"
  /\ last.at = "none"
  /\ last.was.longer
  /\ last.r2.v = <<"1">>

\* C5: a remove without an injected fault returns Ok and leaves nothing of
\* the release; a remove straight after a remove that returned Ok, and a
\* remove with nothing installed, return Ok and change nothing.
C5_RemoveIdempotent ==
  [][ last'.cmd = "remove" =>
        /\ last'.fault = NoFault => (last'.at = "none" /\ NothingLeft(fs'))
        /\ (last.cmd = "remove" /\ last.at = "none") => (last'.at = "none" /\ fs' = fs)
        /\ NothingLeft(fs) => (last'.at = "none" /\ fs' = fs) ]_vars

\* Two removes in a row returned Ok.
C5_Witness ==
  /\ prev
  /\ last.cmd = "remove"
  /\ last.at = "none"
  /\ NothingLeft(fs)

\* C6: a manifest destination that exists before install() is the same file
\* after it.
C6_Original ==
  [][ (last'.cmd = "install" /\ last'.ran) =>
        \A k \in PATH_KV :
          fs.assets[k] # "absent" => fs'.assets[k] = fs.assets[k] ]_vars

\* C7: the install subcommand calls install_vscode exactly when forced or
\* when the check returned a version mismatch.
C7_Original ==
  last.cmd = "install" => (last.ran <=> (last.force \/ last.chk = "Mismatch"))

InstallStepsBeforeMarker ==
  {"arch", "download", "unpack", "rm_asset", "rm_dir", "rm_dir_part", "rm_link",
   "rm_bin", "rm_marker"}

C9_FailedDownloadKeepsRelease ==
  [][ (last'.cmd = "install" /\ last'.force
       /\ last'.at \in {"arch", "download", "unpack"}) =>
        /\ fs'.vscode = fs.vscode
        /\ fs'.bin = fs.bin
        /\ fs'.assets = fs.assets
        /\ fs'.verDir = fs.verDir
        /\ Marker(fs') = Marker(fs) ]_vars

\* The extraction failed and the earlier release is complete.
C9_Witness ==
  /\ last.cmd = "install"
  /\ last.force
  /\ last.at = "unpack"
  /\ fs.staging = "partial"
  /\ fs.vscode = "rel0"
  /\ release_installed(fs)
  /\ fs.mExists

\* C10: from a clean system, whenever the marker holds a version other than
\* "None" the install directory exists.
C10_Original ==
  (get_current_version(fs).ok /\ get_current_version(fs).v # None) =>
    vscode_exists(fs)

====
